---- MODULE Spec2Model ----
(***************************************************************************)
(* Model of the proof-of-prior (POP) reconciliation pipeline:              *)
(*   pop_automation.py  - the reconciliation engine                        *)
(*   local_db.py        - the local tracking store (one sqlite table)      *)
(*   star_util.py       - the field comparators                            *)
(*                                                                         *)
(* Every poll run is one operating-system process.  A process executes     *)
(* its statements in order; each sqlite statement is one atomic step       *)
(* (local_db.py opens a connection, runs one statement and commits).       *)
(* Configuration lookups, logging and the console are collaborators        *)
(* outside the model: the store is taken as opened at its configured path. *)
(***************************************************************************)
EXTENDS Integers, Sequences, FiniteSets, TLC

(***************************************************************************)
(* Python values.  Every value is a record tagged by its type in field t;  *)
(* a dict is a function from its keys (it has no key "t").  A str is a     *)
(* sequence of tokens (characters, or digit groups in dates and numbers).  *)
(***************************************************************************)
NoneV == [t |-> "None"]

Str(s) == [t |-> "str", s |-> s]

IntV(n) == [t |-> "int", v |-> n]

DateTime(y, m, d, h) == [t |-> "datetime", y |-> y, m |-> m, d |-> d, h |-> h]

Raise(e) == [t |-> "raise", exc |-> e]

EmptyDict == <<>>

IsNone(v) == "t" \in DOMAIN v /\ v.t = "None"

IsEmptyDict(v) == DOMAIN v = {}

IsStr(v) == "t" \in DOMAIN v /\ v.t = "str"

IsRaise(v) == "t" \in DOMAIN v /\ v.t = "raise"

(* str.lower(): per character.                                             *)
LowerChar(c) ==
  CASE c = "A" -> "a"
    [] c = "B" -> "b"
    [] OTHER -> c

(* A lower() that leaves the case as it is.                                *)
py_lower_keep_case(v) == Str(v.s)

py_lower(v) == Str([i \in 1..Len(v.s) |-> LowerChar(v.s[i])])

(* str.strip(): drops leading and trailing whitespace.                     *)
RECURSIVE StripLeft(_)
StripLeft(s) == IF s # <<>> /\ Head(s) = " " THEN StripLeft(Tail(s)) ELSE s

RECURSIVE StripRight(_)
StripRight(s) ==
  IF s # <<>> /\ s[Len(s)] = " " THEN StripRight(SubSeq(s, 1, Len(s) - 1)) ELSE s

(* A strip that leaves the leading whitespace.                             *)
py_rstrip(v) == Str(StripRight(v.s))

py_strip(v) == Str(StripRight(StripLeft(v.s)))

(* Digit groups and the numbers they denote.                               *)
NumTokens == {"2024", "01", "1", "02", "2", "104", "207"}

NumVal(tok) ==
  CASE tok = "2024" -> 2024
    [] tok = "01" -> 1
    [] tok = "1" -> 1
    [] tok = "02" -> 2
    [] tok = "2" -> 2
    [] tok = "104" -> 104
    [] tok = "207" -> 207

(* int(x): an int is returned as it is, a str is stripped and must be one  *)
(* digit group (ValueError otherwise), None is a TypeError.                *)
py_int(v) ==
  CASE v.t = "int" -> v
    [] v.t = "str" ->
         LET s == py_strip(v).s
         IN IF Len(s) = 1 /\ s[1] \in NumTokens THEN IntV(NumVal(s[1]))
            ELSE Raise("ValueError")
    [] OTHER -> Raise("TypeError")

(* datetime.strptime(s, '%Y-%m-%d'): four-digit year, "-", month of one or *)
(* two digits, "-", day of one or two digits; anything else is ValueError. *)
strptime_ymd(v) ==
  LET s == v.s
  IN IF /\ Len(s) = 5
        /\ s[2] = "-" /\ s[4] = "-"
        /\ s[1] \in {"2024"}
        /\ s[3] \in {"01", "1", "02", "2"}
        /\ s[5] \in {"01", "1", "02", "2"}
     THEN DateTime(NumVal(s[1]), NumVal(s[3]), NumVal(s[5]), 0)
     ELSE Raise("ValueError")

(* A date() that keeps the hour.                                           *)
py_date_with_hour(v) == <<v.y, v.m, v.d, v.h>>

(* datetime.date(): the calendar date, time of day dropped.                *)
py_date(v) == <<v.y, v.m, v.d>>

(* star_util.compare_dates.  TRUE / FALSE, or a raise when a side is       *)
(* neither a str nor a datetime (None has no .date()).                     *)
compare_dates(date1, date2) ==
  LET d1 == IF IsStr(date1) THEN strptime_ymd(date1) ELSE date1
      d2 == IF IsStr(date2) THEN strptime_ymd(date2) ELSE date2
  IN IF IsRaise(d1) THEN FALSE
     ELSE IF IsRaise(d2) THEN FALSE
     ELSE IF d1.t # "datetime" \/ d2.t # "datetime" THEN Raise("AttributeError")
     ELSE py_date(d1) = py_date(d2)

(* Whether compare_dates raises: both sides got past the parsing, and one  *)
(* of them is not a datetime.                                              *)
compare_dates_raises(date1, date2) ==
  LET d1 == IF IsStr(date1) THEN strptime_ymd(date1) ELSE date1
      d2 == IF IsStr(date2) THEN strptime_ymd(date2) ELSE date2
  IN ~IsRaise(d1) /\ ~IsRaise(d2) /\ (d1.t # "datetime" \/ d2.t # "datetime")

(* star_util.compare_strings.                                              *)
compare_strings(str1, str2) ==
  IF IsNone(str1) /\ IsNone(str2) THEN TRUE
  ELSE IF IsNone(str1) \/ IsNone(str2) THEN FALSE
  ELSE py_strip(str1) = py_strip(str2)

(***************************************************************************)
(* pop_automation.extract_pop_info: the extraction normalizer.  The result *)
(* is a PopResult, or a raise: a section that is present but null cannot   *)
(* be searched for keys (TypeError / AttributeError), and a local variable *)
(* that no branch assigned is unbound when the PopResult is built.  The    *)
(* json_output field (a reference to the input) is left out of the record. *)
(***************************************************************************)
Has(d, k) == k \in DOMAIN d

(* A PopResult whose prior carrier is filled in.                           *)
PopResult_with_carrier(afp, pid, ni, eff, exp, ac, pc0) ==
  [t |-> "PopResult", all_fields_present |-> afp, policy_id |-> pid,
   named_insured |-> ni, effective_date |-> eff, expiration_date |-> exp,
   agent_code |-> ac, prior_carrier |-> Str(<<"A">>)]

PopResult(afp, pid, ni, eff, exp, ac, pc0) ==
  [t |-> "PopResult", all_fields_present |-> afp, policy_id |-> pid,
   named_insured |-> ni, effective_date |-> eff, expiration_date |-> exp,
   agent_code |-> ac, prior_carrier |-> pc0]

extract_pop_info(json_result) ==
  LET hasAgentInfo == Has(json_result, "insurance_agent_info")
      agent_info == json_result["insurance_agent_info"]
      agentInfoNull == hasAgentInfo /\ IsNone(agent_info)
      hasAgentNum == hasAgentInfo /\ ~agentInfoNull /\ Has(agent_info, "agent_number")
      converted == IF hasAgentNum THEN py_int(agent_info["agent_number"]) ELSE NoneV
      agent_code == IF IsRaise(converted) THEN NoneV ELSE converted
      agentPresent == hasAgentNum /\ ~IsRaise(converted)
      policy_info == IF Has(json_result, "policy_summary")
                     THEN json_result["policy_summary"] ELSE EmptyDict
      policyEmpty == IsNone(policy_info) \/ IsEmptyDict(policy_info)
      hasNumber == ~policyEmpty /\ Has(policy_info, "policy_number")
      hasPeriod == ~policyEmpty /\ Has(policy_info, "policy_period")
      policy_period == policy_info["policy_period"]
      periodNull == hasPeriod /\ IsNone(policy_period)
      hasStart == hasPeriod /\ ~periodNull /\ Has(policy_period, "start_date")
      hasEnd == hasPeriod /\ ~periodNull /\ Has(policy_period, "end_date")
      hasCarrier == ~policyEmpty /\ Has(policy_info, "underwritten_by")
      insured == IF Has(json_result, "named_insured")
                 THEN json_result["named_insured"] ELSE EmptyDict
      insuredNull == IsNone(insured)
      name == IF ~insuredNull /\ Has(insured, "name") THEN insured["name"] ELSE NoneV
      nameAbsent == IsNone(name) \/ name = Str(<<>>)
      named_insured == IF nameAbsent THEN name ELSE py_strip(name)
      all_fields_present ==
        /\ agentPresent
        /\ hasNumber /\ hasStart /\ hasEnd /\ hasCarrier
        /\ ~nameAbsent
  IN IF agentInfoNull \/ periodNull THEN Raise("TypeError")
     ELSE IF insuredNull THEN Raise("AttributeError")
     ELSE IF ~hasNumber \/ ~hasStart \/ ~hasEnd THEN Raise("UnboundLocalError")
     ELSE PopResult(all_fields_present, policy_info["policy_number"], named_insured,
                    policy_period["start_date"], policy_period["end_date"],
                    agent_code, NoneV)

(***************************************************************************)
(* pop_automation.find_popfields_sqldb_query maps each returned row to a   *)
(* FindPopFieldsResult: columns 0..4 and column 9 (prior carrier).         *)
(***************************************************************************)
FindPopFieldsResult(pid, ni, eff, exp, ac, pc0) ==
  [t |-> "FindPopFieldsResult", policy_id |-> pid, named_insured |-> ni,
   effective_date |-> eff, expiration_date |-> exp, agent_code |-> ac,
   prior_carrier |-> pc0]

(* A MatchField with its two values in each other's place.                 *)
MatchField_swapped(name, docv, sqlv) ==
  [field_name |-> name, pop_document_value |-> sqlv, sqldb_value |-> docv]

MatchField(name, docv, sqlv) ==
  [field_name |-> name, pop_document_value |-> docv, sqldb_value |-> sqlv]

(* An agent-code test that takes an absent code to differ from any other,  *)
(* an absent one included.                                                 *)
agent_code_differs_on_none(doc_code, sql_code) ==
  IsNone(doc_code) \/ IsNone(sql_code) \/ doc_code # sql_code

(* compute_match, line 412: the agent codes compared with !=.              *)
agent_code_differs(doc_code, sql_code) == doc_code # sql_code

(***************************************************************************)
(* pop_automation.compute_match: five field comparisons in a fixed order.  *)
(* The result is a MatchResult, or a raise: a missing document result or a *)
(* null name has no attribute to read, and compare_dates raises on a null  *)
(* date.                                                                   *)
(***************************************************************************)
compute_match(pop_document_result, pop_sqldb_result) ==
  IF IsNone(pop_document_result) THEN Raise("AttributeError")
  ELSE
  LET doc == pop_document_result
      sql == pop_sqldb_result
      nameRaises == ~IsStr(doc.named_insured) \/ ~IsStr(sql.named_insured)
      nameDiff == py_lower(doc.named_insured) # py_lower(sql.named_insured)
      eff == compare_dates(doc.effective_date, sql.effective_date)
      exp == compare_dates(doc.expiration_date, sql.expiration_date)
      codeDiff == agent_code_differs(doc.agent_code, sql.agent_code)
      carrierDiff == ~compare_strings(doc.prior_carrier, sql.prior_carrier)
      fields_that_dont_match ==
        (IF nameDiff
         THEN <<MatchField("named_insured", doc.named_insured, sql.named_insured)>>
         ELSE <<>>)
        \o (IF ~eff
            THEN <<MatchField("effective_date", doc.effective_date, sql.effective_date)>>
            ELSE <<>>)
        \o (IF ~exp
            THEN <<MatchField("expiration_date", doc.expiration_date, sql.expiration_date)>>
            ELSE <<>>)
        \o (IF codeDiff
            THEN <<MatchField("agent_code", doc.agent_code, sql.agent_code)>>
            ELSE <<>>)
        \o (IF carrierDiff
            THEN <<MatchField("prior_carrier", doc.prior_carrier, sql.prior_carrier)>>
            ELSE <<>>)
  IN IF nameRaises THEN Raise("AttributeError")
     ELSE IF compare_dates_raises(doc.effective_date, sql.effective_date) THEN eff
     ELSE IF compare_dates_raises(doc.expiration_date, sql.expiration_date) THEN exp
     ELSE [t |-> "MatchResult", policy_id |-> sql.policy_id,
           all_fields_match |-> (fields_that_dont_match = <<>>),
           fields_that_dont_match |-> fields_that_dont_match]

(***************************************************************************)
(* local_db.PopLocalDatabase: the table pop_local_state as the set of its  *)
(* rows.  PopProcessingId is a fresh uuid4, modelled by a counter; ids are *)
(* handed out in insertion order, which is also the order a scan of the    *)
(* table returns rows in (fetchone takes the first).                       *)
(***************************************************************************)
STATUS_NOT_PROCESSED == "NOT_PROCESSED"

STATUS_IN_PROGRESS == "IN_PROGRESS"

STATUS_FAILED == "FAILED"

STATUS_PROCESSED == "PROCESSED"

Statuses == {STATUS_NOT_PROCESSED, STATUS_IN_PROGRESS, STATUS_FAILED, STATUS_PROCESSED}

RowsOf(st, file_id) == {r \in st : r.FileID = file_id}

get_record_by_filepath(st, file_id) ==
  LET m == {r \in st : r.filepath = file_id}
  IN IF m = {} THEN NoneV
     ELSE CHOOSE r \in m : \A q \in m : r.PopProcessingId <= q.PopProcessingId

get_record_by_file_id(st, file_id) ==
  LET m == RowsOf(st, file_id)
  IN IF m = {} THEN NoneV
     ELSE CHOOSE r \in m : \A q \in m : r.PopProcessingId <= q.PopProcessingId

insert_record(st, id, file_id, original_date, filepath, status) ==
  st \cup {[PopProcessingId |-> id, FileID |-> file_id, originaldate |-> original_date,
            filepath |-> filepath, status |-> status]}

update_status_lost(st, pop_processing_id, status) == st

update_status_every_row(st, pop_processing_id, status) ==
  {[r EXCEPT !.status = status] : r \in st}

update_status(st, pop_processing_id, status) ==
  {IF r.PopProcessingId = pop_processing_id THEN [r EXCEPT !.status = status] ELSE r
     : r \in st}

(* The number of rows an UPDATE or DELETE by processing id affects.         *)
update_rowcount(st, pop_processing_id) ==
  Cardinality({r \in st : r.PopProcessingId = pop_processing_id})

delete_record(st, pop_processing_id) ==
  {r \in st : r.PopProcessingId # pop_processing_id}

(* add_sample_data: the three sample records, in list order.               *)
sample_records ==
  << [file_id |-> "SC001234", original_date |-> "2024-01-15 10:30:00",
      filepath |-> "/claims/auto/SC001234_proof_prior.pdf",
      status |-> "NOT_PROCESSED"],
     [file_id |-> "SC005678", original_date |-> "2024-01-20 14:45:00",
      filepath |-> "/claims/property/SC005678_prior_coverage.pdf",
      status |-> "PROCESSED"],
     [file_id |-> "SC009876", original_date |-> "2024-01-25 09:15:00",
      filepath |-> "/claims/liability/SC009876_proof_document.pdf",
      status |-> "IN_PROGRESS"] >>

(* add_sample_data as one call: for each sample record a lookup by file id *)
(* and an insert when there is none.                                       *)
(* A seeding that inserts every sample record without looking it up.       *)
RECURSIVE add_sample_from_unchecked(_, _, _)
add_sample_from_unchecked(i, st, id) ==
  IF i > Len(sample_records) THEN [store |-> st, nextId |-> id]
  ELSE LET s == sample_records[i]
       IN add_sample_from_unchecked(i + 1,
                                    insert_record(st, id + 1, s.file_id,
                                                  s.original_date, s.filepath,
                                                  s.status),
                                    id + 1)

RECURSIVE add_sample_from(_, _, _)
add_sample_from(i, st, id) ==
  IF i > Len(sample_records) THEN [store |-> st, nextId |-> id]
  ELSE LET s == sample_records[i]
       IN IF IsNone(get_record_by_file_id(st, s.file_id))
          THEN add_sample_from(i + 1,
                               insert_record(st, id + 1, s.file_id, s.original_date,
                                             s.filepath, s.status),
                               id + 1)
          ELSE add_sample_from(i + 1, st, id)

add_sample_data(st, id) == add_sample_from(1, st, id)

(* should_process_file_check_local_db, on the record its lookup returned.  *)
should_process_unless_processed(record) ==
  IF ~IsNone(record) THEN record.status # "PROCESSED" ELSE TRUE

should_process_retry_failed(record) ==
  IF ~IsNone(record) THEN record.status \in {"NOT_PROCESSED", "FAILED"} ELSE TRUE

should_process(record) ==
  IF ~IsNone(record) THEN record.status = "NOT_PROCESSED" ELSE TRUE

(***************************************************************************)
(* Inputs of a run: the candidate document the poll returned, what the     *)
(* document-understanding call answered and what the authoritative query   *)
(* answered.                                                               *)
(***************************************************************************)
MaxRuns == 4

MaxOverlappingRuns == 2

MaxCalls == 3

MaxPolls == 3

Procs == {"run_a", "run_b"}

FileIds == {"SC001234", "SC005678", "SC009876", "SC000042"}

(* A row of SQL_FIND_POP_LAST_ONEDAY: FilePath, DateCreated, ISFileID,     *)
(* PolicyID.                                                               *)
CandidateRow(file_id) ==
  [filepath |-> <<"//share/pop", file_id>>, date_created |-> "2024-02-01",
   file_id |-> file_id, policy_id |-> 482144]

CandidateRows == {CandidateRow(f) : f \in FileIds}

(* Parsed JSON answers of the document-understanding call, in the shape of *)
(* define_json_schema.                                                     *)
JsonDoc(agent_number, name, start_date, end_date) ==
  [insurance_agent_info |-> [agent_number |-> agent_number],
   policy_summary |-> [policy_number |-> Str(<<"482144">>),
                       policy_period |-> [start_date |-> start_date,
                                          end_date |-> end_date],
                       underwritten_by |-> Str(<<"A">>)],
   named_insured |-> [name |-> name]]

JsonDocs ==
  { JsonDoc(Str(<<"104">>), Str(<<"A", "b", " ">>),
            Str(<<"2024", "-", "01", "-", "02">>), Str(<<"2024", "-", "02", "-", "01">>)),
    JsonDoc(Str(<<"207">>), Str(<<"A", "b">>),
            Str(<<"2024", "-", "1", "-", "2">>), Str(<<"2024", "-", "02", "-", "01">>)),
    [insurance_agent_info |-> [agent_name |-> Str(<<"A">>)],
     policy_summary |-> [policy_number |-> Str(<<"482144">>),
                         policy_period |-> [start_date |-> Str(<<"2024", "-", "01", "-", "02">>),
                                            end_date |-> Str(<<"01", "/", "02", "/", "2024">>)]],
     named_insured |-> [name |-> Str(<<"B">>)]],
    [insurance_agent_info |-> [agent_number |-> Str(<<"104">>)],
     named_insured |-> [name |-> Str(<<"A", "b">>)]],
    [insurance_agent_info |-> [agent_number |-> Str(<<"104">>)],
     policy_summary |-> [policy_number |-> Str(<<"482144">>),
                         policy_period |-> [start_date |-> Str(<<"2024", "-", "01", "-", "02">>),
                                            end_date |-> Str(<<"2024", "-", "02", "-", "01">>)],
                         underwritten_by |-> Str(<<"A">>)],
     named_insured |-> [address |-> Str(<<"B">>)]] }

GeminiAnswers == {NoneV} \cup JsonDocs

(* A row of get_sql_find_popfields_testdb: ten columns, prior carrier last.*)
FieldsRow(named_insured, effective, expiration, agent_code, prior_carrier) ==
  << 482144, named_insured, effective, expiration, agent_code,
     Str(<<"dba">>), Str(<<"agent">>), Str(<<"cv">>), Str(<<"ct">>), prior_carrier >>

FieldsRows ==
  { FieldsRow(Str(<<"A", "b">>), DateTime(2024, 1, 2, 0), DateTime(2024, 2, 1, 9),
              IntV(code), carrier)
      : code \in {104, 207}, carrier \in {NoneV, Str(<<"A">>)} }
  \cup { FieldsRow(Str(<<"a", "B">>), DateTime(2024, 1, 2, 0), DateTime(2024, 2, 1, 9),
                   IntV(104), NoneV) }

OtherRow == FieldsRow(Str(<<"B">>), NoneV, NoneV, IntV(207), NoneV)

(* connect_and_run_query: sys.exit(1) when the driver or the configuration *)
(* is missing, None when the query fails, else the list of rows.           *)
List(xs) == [t |-> "list", items |-> xs]

QueryAnswers ==
  {Raise("SystemExit"), NoneV}
    \cup {List(<<>>)}
    \cup {List(<<r>>) : r \in FieldsRows}
    \cup {List(<<r, OtherRow>>) : r \in {q \in FieldsRows : q[10] = Str(<<"A">>)}}

(* A fetch that takes the executor's sys.exit for a failed query.          *)
find_popfields_sqldb_query_no_exit(rows) ==
  IF IsRaise(rows) \/ IsNone(rows) THEN NoneV
  ELSE List([i \in 1..Len(rows.items) |->
               LET r == rows.items[i]
               IN FindPopFieldsResult(r[1], r[2], r[3], r[4], r[5], r[10])])

(* find_popfields_sqldb_query on the answer of the query executor.         *)
find_popfields_sqldb_query(rows) ==
  IF IsRaise(rows) THEN rows
  ELSE IF IsNone(rows) THEN NoneV
  ELSE List([i \in 1..Len(rows.items) |->
               LET r == rows.items[i]
               IN FindPopFieldsResult(r[1], r[2], r[3], r[4], r[5], r[10])])

(***************************************************************************)
(* State.                                                                  *)
(*   store        rows of pop_local_state (the sqlite file, shared)        *)
(*   nextId       number of processing ids handed out so far               *)
(*   runs         number of poll runs started so far                       *)
(*   calls        number of direct store calls made so far (MaxCalls bounds *)
(*                runs and calls together where both occur)                *)
(*   pc           position of each process                                 *)
(*   row          the candidate row the run works on                       *)
(*   seedIdx      position of add_sample_data in sample_records            *)
(*   record       the row update_local_db's lookup by file id returned     *)
(*   newStatus    the status argument of the pending update_local_db       *)
(*   document_result, sqldb_results, match_result                          *)
(*                locals of process_incoming_pop_transaction, kept while   *)
(*                a later statement reads them                             *)
(*   ret          what process_incoming_pop_transaction returned or raised *)
(*   trace        stages the current run has executed, with the outcome    *)
(*                of the copy, the extraction call and the query           *)
(*   outcomes     PROCESSED writes that took effect so far, per file id    *)
(*   json_input, pop_result                                                *)
(*                argument and result of a call of extract_pop_info on its *)
(*                own (None where the normalizer is not called this way)   *)
(*   deleted_file_ids                                                      *)
(*                the file ids whose PROCESSED or FAILED record the        *)
(*                operator deleted between runs and that no run has seen   *)
(*                since                                                    *)
(*   gemini_filepath                                                       *)
(*                the path the run handed to process_document_with_gemini  *)
(*                (the empty path before the call)                         *)
(*   pure_call, pure_result                                                *)
(*                a call of compare_dates, compare_strings or              *)
(*                compute_match on its own: the function and its two       *)
(*                arguments, and what the call returned or raised (None    *)
(*                where no such call is made, and before it returns)       *)
(*   source       the candidate list SQL_FIND_POP_LAST_ONEDAY returns on   *)
(*                every poll, where it is held fixed (None where it may    *)
(*                differ from poll to poll)                                *)
(*   call         file id and status of the last update_local_db call made *)
(*                on its own, outside a run (None when there was none, or  *)
(*                when add_sample_data was called since); for a            *)
(*                get_all_records or delete_record call made on its own,   *)
(*                the operation, its argument and what it returned         *)
(*   candidate_rows                                                        *)
(*                the candidate list the run's poll returned               *)
(***************************************************************************)
VARIABLES store, nextId, runs, calls, pc, row, seedIdx, record, newStatus,
          document_result, sqldb_results, match_result, ret, trace, outcomes,
          json_input, pop_result, source, candidate_rows, call,
          pure_call, pure_result, gemini_filepath, deleted_file_ids

vars == <<store, nextId, runs, calls, pc, row, seedIdx, record, newStatus,
          document_result, sqldb_results, match_result, ret, trace, outcomes,
          json_input, pop_result, source, candidate_rows, call,
          pure_call, pure_result, gemini_filepath,
          deleted_file_ids>>

Finished == {"returned", "raised", "exited", "no_rows"}

InitEngine ==
  /\ deleted_file_ids = {}
  /\ gemini_filepath = [p \in Procs |-> <<>>]
  /\ store = {}
  /\ nextId = 0
  /\ runs = 0
  /\ calls = 0
  /\ pc = [p \in Procs |-> "idle"]
  /\ row = [p \in Procs |-> NoneV]
  /\ seedIdx = [p \in Procs |-> 0]
  /\ record = [p \in Procs |-> NoneV]
  /\ newStatus = [p \in Procs |-> "-"]
  /\ document_result = [p \in Procs |-> NoneV]
  /\ sqldb_results = [p \in Procs |-> NoneV]
  /\ match_result = [p \in Procs |-> NoneV]
  /\ ret = [p \in Procs |-> NoneV]
  /\ trace = [p \in Procs |-> <<>>]
  /\ outcomes = [f \in FileIds |-> 0]
  /\ candidate_rows = [p \in Procs |-> NoneV]
  /\ call = NoneV

Init ==
  /\ InitEngine
  /\ json_input = NoneV
  /\ pop_result = NoneV
  /\ source = NoneV
  /\ pure_call = NoneV
  /\ pure_result = NoneV

(***************************************************************************)
(* run_pop_automation_loop: a process starts, polls, and hands the first   *)
(* candidate row to process_incoming_pop_transaction.  The poll's answer   *)
(* is sys.exit (no driver, no configuration), None (the query failed) or   *)
(* the list of rows; on None and on an empty list the loop is not entered. *)
(***************************************************************************)
(* Processes are interchangeable: a new run takes the first free slot.     *)
FirstFree(p) == p = "run_a" \/ pc["run_a"] # "idle"

Poll(p, answer) ==
  /\ pc[p] = "idle"
  /\ FirstFree(p)
  /\ IF IsRaise(answer)
     THEN /\ pc' = [pc EXCEPT ![p] = "exited"]
          /\ ret' = [ret EXCEPT ![p] = answer]
          /\ candidate_rows' = [candidate_rows EXCEPT ![p] = NoneV]
          /\ row' = [row EXCEPT ![p] = NoneV]
          /\ seedIdx' = [seedIdx EXCEPT ![p] = 0]
     ELSE IF IsNone(answer) \/ answer.items = <<>>
     THEN /\ pc' = [pc EXCEPT ![p] = "no_rows"]
          /\ ret' = [ret EXCEPT ![p] = NoneV]
          /\ candidate_rows' = [candidate_rows EXCEPT ![p] = answer]
          /\ row' = [row EXCEPT ![p] = NoneV]
          /\ seedIdx' = [seedIdx EXCEPT ![p] = 0]
     ELSE /\ pc' = [pc EXCEPT ![p] = "seed_lookup"]
          /\ ret' = [ret EXCEPT ![p] = NoneV]
          /\ candidate_rows' = [candidate_rows EXCEPT ![p] = answer]
          /\ row' = [row EXCEPT ![p] = answer.items[1]]
          /\ seedIdx' = [seedIdx EXCEPT ![p] = 1]
  /\ record' = [record EXCEPT ![p] = NoneV]
  /\ newStatus' = [newStatus EXCEPT ![p] = "-"]
  /\ document_result' = [document_result EXCEPT ![p] = NoneV]
  /\ sqldb_results' = [sqldb_results EXCEPT ![p] = NoneV]
  /\ match_result' = [match_result EXCEPT ![p] = NoneV]
  /\ trace' = [trace EXCEPT ![p] = <<>>]
  /\ gemini_filepath' = [gemini_filepath EXCEPT ![p] = <<>>]
  /\ UNCHANGED <<deleted_file_ids, pure_call, pure_result, json_input, pop_result, source, call, calls, store, nextId,
                 outcomes>>

(* A run whose poll returned the candidate row r first.                    *)
Start(p, r) ==
  /\ runs' = runs + 1
  /\ Poll(p, List(<<r>>))

(* Runs one after the other: a process starts when no other is running.    *)
StartRun(p) ==
  /\ \A q \in Procs : pc[q] = "idle"
  /\ runs < MaxRuns
  /\ \E r \in CandidateRows : Start(p, r)

(* Runs that may overlap (an operator re-triggering a run in flight).      *)
StartOverlapping(p) ==
  /\ runs < MaxOverlappingRuns
  /\ \E r \in CandidateRows : Start(p, r)

(* get_pop_db, first use in the process: add_sample_data, one lookup and   *)
(* one conditional insert per sample record.                               *)
SeedAdvance(p) ==
  IF seedIdx[p] = Len(sample_records)
  THEN /\ pc' = [pc EXCEPT ![p] = "admission"]
       /\ seedIdx' = [seedIdx EXCEPT ![p] = 0]
  ELSE /\ pc' = [pc EXCEPT ![p] = "seed_lookup"]
       /\ seedIdx' = [seedIdx EXCEPT ![p] = seedIdx[p] + 1]

SeedLookup(p) ==
  /\ pc[p] = "seed_lookup"
  /\ LET existing == get_record_by_file_id(store, sample_records[seedIdx[p]].file_id)
     IN IF IsNone(existing)
        THEN /\ pc' = [pc EXCEPT ![p] = "seed_insert"]
             /\ UNCHANGED seedIdx
        ELSE SeedAdvance(p)
  /\ UNCHANGED <<deleted_file_ids, gemini_filepath, pure_call, pure_result, json_input, pop_result, source, call, candidate_rows, calls, store,
                 nextId, runs, row, record, newStatus, document_result,
                 sqldb_results, match_result, ret, trace, outcomes>>

SeedInsert(p) ==
  /\ pc[p] = "seed_insert"
  /\ LET s == sample_records[seedIdx[p]]
     IN store' = insert_record(store, nextId + 1, s.file_id, s.original_date,
                               s.filepath, s.status)
  /\ nextId' = nextId + 1
  /\ SeedAdvance(p)
  /\ UNCHANGED <<deleted_file_ids, gemini_filepath, pure_call, pure_result, json_input, pop_result, source, call, candidate_rows, calls, runs,
                 row, record, newStatus, document_result, sqldb_results,
                 match_result, ret, trace, outcomes>>

(* process_incoming_pop_transaction, line 455: the admission check.        *)
Admission(p) ==
  /\ pc[p] = "admission"
  /\ LET rec == get_record_by_file_id(store, row[p].file_id)
     IN IF should_process(rec)
        THEN /\ pc' = [pc EXCEPT ![p] = "copy"]
             /\ UNCHANGED ret
        ELSE /\ pc' = [pc EXCEPT ![p] = "returned"]
             /\ ret' = [ret EXCEPT ![p] = NoneV]
  /\ trace' = [trace EXCEPT ![p] = Append(@, "admission")]
  /\ UNCHANGED <<deleted_file_ids, gemini_filepath, pure_call, pure_result, json_input, pop_result, source, call, candidate_rows, calls, store,
                 nextId, runs, row, seedIdx, record, newStatus,
                 document_result, sqldb_results, match_result, outcomes>>

(* Line 456: the local directory the configuration names.  A path is a     *)
(* directory and a file name; copy_file_into_localdir (lines 222-253)      *)
(* copies to the local directory under the source's file name and returns  *)
(* that path.                                                              *)
local_subdir == "local_pop_filedir"

os_path_basename(filepath) == filepath[2]

os_path_join(dir, filename) == <<dir, filename>>

copy_file_into_localdir(filepath, subdir) ==
  os_path_join(subdir, os_path_basename(filepath))

(* Lines 456-461: copy_file_into_localdir returns a path, or None on any   *)
(* exception; on None the engine goes to update_local_db(..., FAILED).     *)
CopyFailureUnmarked(p) ==
  /\ pc[p] = "copy"
  /\ \E copied \in BOOLEAN :
       IF copied
       THEN /\ pc' = [pc EXCEPT ![p] = "extract"]
            /\ trace' = [trace EXCEPT ![p] = Append(@, "copy")]
            /\ UNCHANGED ret
       ELSE /\ pc' = [pc EXCEPT ![p] = "returned"]
            /\ trace' = [trace EXCEPT ![p] = Append(@, "copy_failed")]
            /\ ret' = [ret EXCEPT ![p] = NoneV]
  /\ UNCHANGED <<deleted_file_ids, gemini_filepath, pure_call, pure_result, json_input, pop_result, source, call, candidate_rows, calls, store,
                 nextId, runs, row, seedIdx, record, newStatus,
                 document_result, sqldb_results, match_result, outcomes>>

Copy(p) ==
  /\ pc[p] = "copy"
  /\ \E copied \in BOOLEAN :
       IF copied
       THEN /\ pc' = [pc EXCEPT ![p] = "extract"]
            /\ trace' = [trace EXCEPT ![p] = Append(@, "copy")]
            /\ UNCHANGED newStatus
       ELSE /\ pc' = [pc EXCEPT ![p] = "upd_lookup"]
            /\ trace' = [trace EXCEPT ![p] = Append(@, "copy_failed")]
            /\ newStatus' = [newStatus EXCEPT ![p] = STATUS_FAILED]
  /\ UNCHANGED <<deleted_file_ids, gemini_filepath, pure_call, pure_result, json_input, pop_result, source, call, candidate_rows, calls, store,
                 nextId, runs, row, seedIdx, record, document_result,
                 sqldb_results, match_result, ret, outcomes>>

(* Line 463, process_document_with_gemini: None when the call gave no JSON,*)
(* else the normalized record (complete or partial), or the normalizer's   *)
(* exception.                                                              *)
process_document_with_gemini(parsed_json) ==
  IF ~IsNone(parsed_json) THEN extract_pop_info(parsed_json) ELSE NoneV

Extract(p) ==
  /\ pc[p] = "extract"
  /\ \E parsed_json \in GeminiAnswers :
       LET res == process_document_with_gemini(parsed_json)
       IN
       /\ IF IsRaise(res)
          THEN /\ pc' = [pc EXCEPT ![p] = "raised"]
               /\ ret' = [ret EXCEPT ![p] = res]
               /\ UNCHANGED document_result
          ELSE /\ pc' = [pc EXCEPT ![p] = "query"]
               /\ document_result' = [document_result EXCEPT ![p] = res]
               /\ UNCHANGED ret
       /\ trace' = [trace EXCEPT ![p] =
                      Append(@, IF IsNone(parsed_json) THEN "extract_failed" ELSE "extract")]
  /\ gemini_filepath' = [gemini_filepath EXCEPT ![p] = row[p].filepath]
  /\ UNCHANGED <<deleted_file_ids, pure_call, pure_result, json_input, pop_result, source, call, candidate_rows, calls, store,
                 nextId, runs, row, seedIdx, record, newStatus, sqldb_results,
                 match_result, outcomes>>

(* Line 465: the authoritative query, whatever document_result is.         *)
Query(p) ==
  /\ pc[p] = "query"
  /\ \E rows \in QueryAnswers :
       LET res == find_popfields_sqldb_query(rows)
       IN
       /\ IF IsRaise(res)
          THEN /\ pc' = [pc EXCEPT ![p] = "exited"]
               /\ ret' = [ret EXCEPT ![p] = res]
               /\ document_result' = [document_result EXCEPT ![p] = NoneV]
               /\ UNCHANGED sqldb_results
          ELSE /\ pc' = [pc EXCEPT ![p] = "compare"]
               /\ sqldb_results' = [sqldb_results EXCEPT ![p] = res]
               /\ UNCHANGED <<ret, document_result>>
       /\ trace' = [trace EXCEPT ![p] =
                      Append(@, IF IsRaise(rows) THEN "query_exit"
                                ELSE IF IsNone(rows) THEN "query_failed"
                                ELSE IF rows.items = <<>> THEN "query_empty"
                                ELSE "query")]
  /\ UNCHANGED <<deleted_file_ids, gemini_filepath, pure_call, pure_result, json_input, pop_result, source, call, candidate_rows, calls, store, nextId,
                 runs, row, seedIdx, record, newStatus, match_result,
                 outcomes>>

(* Taking the last row instead of the first.                               *)
last_result(results) ==
  IF IsNone(results) THEN Raise("TypeError")
  ELSE IF results.items = <<>> THEN Raise("IndexError")
  ELSE results.items[Len(results.items)]

(* Lines 471-472: sqldb_results[0], then compute_match.                    *)
first_result(results) ==
  IF IsNone(results) THEN Raise("TypeError")
  ELSE IF results.items = <<>> THEN Raise("IndexError")
  ELSE results.items[1]

Compare(p) ==
  /\ pc[p] = "compare"
  /\ LET sqldb_result == first_result(sqldb_results[p])
         res == IF IsRaise(sqldb_result) THEN sqldb_result
                ELSE compute_match(document_result[p], sqldb_result)
     IN /\ IF IsRaise(res)
           THEN /\ pc' = [pc EXCEPT ![p] = "raised"]
                /\ ret' = [ret EXCEPT ![p] = res]
                /\ UNCHANGED <<match_result, newStatus>>
           ELSE /\ pc' = [pc EXCEPT ![p] = "upd_lookup"]
                /\ match_result' = [match_result EXCEPT ![p] = res]
                /\ newStatus' = [newStatus EXCEPT ![p] = STATUS_PROCESSED]
                /\ UNCHANGED ret
        /\ trace' = [trace EXCEPT ![p] =
                       IF IsRaise(sqldb_result) THEN @ ELSE Append(@, "compare")]
  /\ document_result' = [document_result EXCEPT ![p] = NoneV]
  /\ sqldb_results' = [sqldb_results EXCEPT ![p] = NoneV]
  /\ UNCHANGED <<deleted_file_ids, gemini_filepath, pure_call, pure_result, json_input, pop_result, source, call, candidate_rows, calls, store,
                 nextId, runs, row, seedIdx, record, outcomes>>

(* update_local_db, line 210: the lookup by file id.                       *)
UpdateLookup(p) ==
  /\ pc[p] = "upd_lookup"
  /\ record' = [record EXCEPT ![p] = get_record_by_file_id(store, row[p].file_id)]
  /\ pc' = [pc EXCEPT ![p] = "upd_write"]
  /\ UNCHANGED <<deleted_file_ids, gemini_filepath, pure_call, pure_result, json_input, pop_result, source, call, candidate_rows, calls, store,
                 nextId, runs, row, seedIdx, newStatus, document_result,
                 sqldb_results, match_result, ret, trace, outcomes>>

(* update_local_db, lines 211-219: update the record found, else insert;   *)
(* then lines 461 / 476: return (None after a failed copy, the match       *)
(* result after PROCESSED).  The caller does not read the boolean that     *)
(* update_local_db returns.                                                *)
(* An update that also takes over the date the call was given.             *)
update_local_db_redate(st, rec, id, r, status) ==
  IF ~IsNone(rec)
  THEN {IF x.PopProcessingId = rec.PopProcessingId
        THEN [x EXCEPT !.status = status, !.originaldate = r.date_created]
        ELSE x : x \in st}
  ELSE insert_record(st, id, r.file_id, r.date_created, r.filepath, status)

update_local_db_insert_only(st, rec, id, r, status) ==
  insert_record(st, IF IsNone(rec) THEN id ELSE id + 1,
                r.file_id, r.date_created, r.filepath, status)

update_local_db_write(st, rec, id, r, status) ==
  IF ~IsNone(rec) THEN update_status(st, rec.PopProcessingId, status)
  ELSE insert_record(st, id, r.file_id, r.date_created, r.filepath, status)

(* What update_local_db returns: False when the update affected no row.    *)
update_local_db_result(st, rec) ==
  IF ~IsNone(rec) THEN update_rowcount(st, rec.PopProcessingId) > 0 ELSE TRUE

UpdateWrite(p) ==
  /\ pc[p] = "upd_write"
  /\ store' = update_local_db_write(store, record[p], nextId + 1, row[p], newStatus[p])
  /\ nextId' = IF IsNone(record[p]) THEN nextId + 1 ELSE nextId
  /\ pc' = [pc EXCEPT ![p] = "returned"]
  /\ ret' = [ret EXCEPT ![p] =
               IF newStatus[p] = STATUS_PROCESSED THEN match_result[p] ELSE NoneV]
  /\ match_result' = [match_result EXCEPT ![p] = NoneV]
  /\ record' = [record EXCEPT ![p] = NoneV]
  /\ newStatus' = [newStatus EXCEPT ![p] = "-"]
  /\ trace' = [trace EXCEPT ![p] =
                 Append(@, IF update_local_db_result(store, record[p])
                           THEN "record" ELSE "record_failed")]
  /\ outcomes' = [outcomes EXCEPT ![row[p].file_id] =
                    IF /\ newStatus[p] = STATUS_PROCESSED
                       /\ update_local_db_result(store, record[p])
                    THEN @ + 1 ELSE @]
  /\ UNCHANGED <<deleted_file_ids, gemini_filepath, pure_call, pure_result, json_input, pop_result, source, call, candidate_rows, calls, runs,
                 row, seedIdx, document_result, sqldb_results>>

(* run_pop_automation_loop, lines 490-494: after the call for the first    *)
(* row the loop breaks, so no row is left to visit.  Then the process      *)
(* ends: by returning from run_pop_automation_loop, by the uncaught        *)
(* exception, or by sys.exit.                                              *)
after_first_row_no_break(items) == Tail(items)

after_first_row(items) == <<>>

Exit(p) ==
  /\ pc[p] \in Finished
  /\ LET rest == IF pc[p] = "returned" THEN after_first_row(candidate_rows[p].items) ELSE <<>>
     IN IF rest = <<>>
        THEN /\ pc' = [pc EXCEPT ![p] = "idle"]
             /\ row' = [row EXCEPT ![p] = NoneV]
             /\ candidate_rows' = [candidate_rows EXCEPT ![p] = NoneV]
             /\ trace' = [trace EXCEPT ![p] = <<>>]
        ELSE /\ pc' = [pc EXCEPT ![p] = "admission"]
             /\ row' = [row EXCEPT ![p] = rest[1]]
             /\ candidate_rows' = [candidate_rows EXCEPT ![p] = List(rest)]
             /\ UNCHANGED trace
  /\ ret' = [ret EXCEPT ![p] = NoneV]
  /\ gemini_filepath' = [gemini_filepath EXCEPT ![p] = <<>>]
  /\ deleted_file_ids' = IF IsNone(row[p]) THEN deleted_file_ids
                         ELSE deleted_file_ids \ {row[p].file_id}
  /\ UNCHANGED <<pure_call, pure_result, json_input, pop_result, source, call, calls, store, nextId, runs,
                 seedIdx, record, newStatus, document_result, sqldb_results,
                 match_result, outcomes>>

Step(p) ==
  \/ SeedLookup(p) \/ SeedInsert(p) \/ Admission(p) \/ Copy(p) \/ Extract(p)
  \/ Query(p) \/ Compare(p) \/ UpdateLookup(p) \/ UpdateWrite(p) \/ Exit(p)

(* Sequential runs: the single-threaded, one-run-at-a-time operation.      *)
Next == \E p \in Procs : StartRun(p) \/ Step(p)

Spec == Init /\ [][Next]_vars

(***************************************************************************)
(* The store's operations called on their own, between runs: a whole       *)
(* update_local_db call with any status, and a whole add_sample_data (the  *)
(* store opened by another entry point).                                   *)
(***************************************************************************)
UpdateLocalDb(file_id, status) ==
  /\ \A q \in Procs : pc[q] = "idle"
  /\ runs + calls < MaxCalls
  /\ calls' = calls + 1
  /\ call' = [file_id |-> file_id, status |-> status]
  /\ LET rec == get_record_by_file_id(store, file_id)
     IN /\ store' = update_local_db_write(store, rec, nextId + 1,
                                          CandidateRow(file_id), status)
        /\ nextId' = IF IsNone(rec) THEN nextId + 1 ELSE nextId
  /\ UNCHANGED <<deleted_file_ids, gemini_filepath, pure_call, pure_result, json_input, pop_result, source, candidate_rows, runs, pc, row,
                 seedIdx, record, newStatus, document_result, sqldb_results,
                 match_result, ret, trace, outcomes>>

AddSampleData ==
  /\ \A q \in Procs : pc[q] = "idle"
  /\ runs + calls < MaxCalls
  /\ calls' = calls + 1
  /\ call' = NoneV
  /\ LET res == add_sample_data(store, nextId)
     IN /\ store' = res.store
        /\ nextId' = res.nextId
  /\ UNCHANGED <<deleted_file_ids, gemini_filepath, pure_call, pure_result, json_input, pop_result, source, candidate_rows, runs, pc, row,
                 seedIdx, record, newStatus, document_result, sqldb_results,
                 match_result, ret, trace, outcomes>>

(* A poll run started between such calls.                                  *)
StartBetweenCalls(p) ==
  /\ \A q \in Procs : pc[q] = "idle"
  /\ runs + calls < MaxCalls
  /\ \E r \in CandidateRows : Start(p, r)

NextStore ==
  \/ \E p \in Procs : StartBetweenCalls(p) \/ Step(p)
  \/ \E f \in FileIds, status \in Statuses : UpdateLocalDb(f, status)
  \/ AddSampleData

SpecStore == Init /\ [][NextStore]_vars

(***************************************************************************)
(* An operator deleting records (PopLocalDatabase.delete_record) at any    *)
(* moment, also while a run is between two of its statements.              *)
(***************************************************************************)
DeleteRecord(pop_processing_id) ==
  /\ runs + calls < MaxCalls
  /\ update_rowcount(store, pop_processing_id) > 0
  /\ calls' = calls + 1
  /\ store' = delete_record(store, pop_processing_id)
  /\ deleted_file_ids' =
       deleted_file_ids
         \cup {r.FileID : r \in {x \in store :
                  /\ x.PopProcessingId = pop_processing_id
                  /\ x.status \in {STATUS_PROCESSED, STATUS_FAILED}
                  /\ \A q \in Procs : pc[q] = "idle"}}
  /\ UNCHANGED <<gemini_filepath, pure_call, pure_result, json_input, pop_result, source, call, candidate_rows, nextId, runs,
                 pc, row, seedIdx, record, newStatus, document_result,
                 sqldb_results, match_result, ret, trace, outcomes>>

NextOperator ==
  \/ \E p \in Procs : StartBetweenCalls(p) \/ Step(p)
  \/ \E id \in 1..nextId : DeleteRecord(id)

SpecOperator == Init /\ [][NextOperator]_vars

(* Overlapping runs on the same store.                                     *)
NextOverlapping == \E p \in Procs : StartOverlapping(p) \/ Step(p)

SpecOverlapping == Init /\ [][NextOverlapping]_vars

(***************************************************************************)
(* The polling driver with every answer of its poll: sys.exit, None, the   *)
(* empty list, one candidate row, two candidate rows.                      *)
(***************************************************************************)
PollAnswers ==
  {Raise("SystemExit"), NoneV, List(<<>>)}
    \cup {List(<<r>>) : r \in CandidateRows}
    \cup {List(<<x[1], x[2]>>)
            : x \in {y \in CandidateRows \X CandidateRows : y[1] # y[2]}}

PollRun(p) ==
  /\ \A q \in Procs : pc[q] = "idle"
  /\ runs < MaxPolls
  /\ runs' = runs + 1
  /\ \E answer \in PollAnswers : Poll(p, answer)

NextPoll == \E p \in Procs : PollRun(p) \/ Step(p)

SpecPoll == Init /\ [][NextPoll]_vars

(***************************************************************************)
(* Poll runs repeated without end over a candidate list that stays the     *)
(* same, in the same order.  The runs are not counted here.  A run that    *)
(* can take a step takes one, and a new run is started whenever the last   *)
(* one has ended.  The collaborators do not fail for ever: of the runs     *)
(* that reach the copy, infinitely many copy the file; of those that reach *)
(* the extraction call, infinitely many get a complete record; of those    *)
(* that reach the query with a complete record, infinitely many get rows.  *)
(***************************************************************************)
FixedSources ==
  {List(<<r>>) : r \in CandidateRows}
    \cup {List(<<x[1], x[2]>>)
            : x \in {y \in CandidateRows \X CandidateRows : y[1] # y[2]}}

InitDrain ==
  /\ InitEngine
  /\ json_input = NoneV
  /\ pop_result = NoneV
  /\ source \in FixedSources
  /\ pure_call = NoneV
  /\ pure_result = NoneV

PollRepeat(p) ==
  /\ \A q \in Procs : pc[q] = "idle"
  /\ UNCHANGED runs
  /\ Poll(p, source)

NextDrain == \E p \in Procs : PollRepeat(p) \/ Step(p)

HealthyCopy(p) == Copy(p) /\ pc'[p] = "extract"

HealthyExtract(p) ==
  /\ Extract(p)
  /\ ~IsNone(document_result'[p])
  /\ document_result'[p].all_fields_present

HealthyQuery(p) ==
  /\ ~IsNone(document_result[p])
  /\ document_result[p].all_fields_present
  /\ Query(p)
  /\ ~IsNone(sqldb_results'[p])
  /\ sqldb_results'[p].items # <<>>

SpecDrain ==
  /\ InitDrain
  /\ [][NextDrain]_vars
  /\ WF_vars(NextDrain)
  /\ \A p \in Procs :
       /\ SF_vars(HealthyCopy(p))
       /\ SF_vars(HealthyExtract(p))
       /\ SF_vars(HealthyQuery(p))

(***************************************************************************)
(* extract_pop_info called on its own, on parsed JSON objects of every     *)
(* shape around define_json_schema: each section absent, null or present,  *)
(* each required key of a section absent, null or present.  The result of  *)
(* validate_json_output is only logged, so objects that do not validate    *)
(* reach the normalizer as well.                                           *)
(***************************************************************************)
Restrict(d, ks) == [k \in ks |-> d[k]]

AgentInfos ==
  { NoneV,
    [agent_name |-> Str(<<"A">>)],
    [agent_name |-> Str(<<"A">>), agent_number |-> Str(<<"104">>)],
    [agent_name |-> Str(<<"A">>), agent_number |-> Str(<<"A", "b">>)],
    [agent_name |-> Str(<<"A">>), agent_number |-> NoneV],
    [agent_name |-> Str(<<"A">>), agent_number |-> IntV(207)] }

PolicyPeriods ==
  {NoneV}
    \cup {Restrict([start_date |-> start, end_date |-> Str(<<"2024", "-", "02", "-", "01">>)], ks)
            : start \in {NoneV, Str(<<"2024", "-", "01", "-", "02">>)},
              ks \in SUBSET {"start_date", "end_date"}}

PolicySummaries ==
  {NoneV}
    \cup {Restrict([policy_number |-> number, policy_period |-> period,
                    underwritten_by |-> Str(<<"A">>)], ks)
            : number \in {NoneV, Str(<<"482144">>)}, period \in PolicyPeriods,
              ks \in SUBSET {"policy_number", "policy_period", "underwritten_by"}}

NamedInsureds ==
  { NoneV,
    EmptyDict,
    [name |-> NoneV],
    [name |-> Str(<<>>)],
    [name |-> Str(<<" ">>)],
    [name |-> Str(<<"A", "b", " ">>)] }

NormalizerInputs ==
  {Restrict([insurance_agent_info |-> agent_info, policy_summary |-> policy_info,
             named_insured |-> insured], ks)
     : agent_info \in AgentInfos, policy_info \in PolicySummaries,
       insured \in NamedInsureds,
       ks \in SUBSET {"insurance_agent_info", "policy_summary", "named_insured"}}

InitNormalizer ==
  /\ InitEngine
  /\ json_input \in NormalizerInputs
  /\ pop_result = NoneV
  /\ source = NoneV
  /\ pure_call = NoneV
  /\ pure_result = NoneV

Normalize ==
  /\ json_input \in NormalizerInputs
  /\ IsNone(pop_result)
  /\ pop_result' = extract_pop_info(json_input)
  /\ UNCHANGED <<deleted_file_ids, gemini_filepath, pure_call, pure_result, json_input, source, call, candidate_rows, store, nextId, runs,
                 calls, pc, row, seedIdx, record, newStatus, document_result,
                 sqldb_results, match_result, ret, trace, outcomes>>

NextNormalizer == Normalize

SpecNormalizer == InitNormalizer /\ [][NextNormalizer]_vars

(***************************************************************************)
(* The store's own operations called one after the other, as the operator  *)
(* console and the engine's helpers call them: update_local_db (inserts    *)
(* and status updates), add_sample_data, delete_record with the id of a    *)
(* record or with an id no record has, and get_all_records.  call holds    *)
(* the last call and what it returned.                                     *)
(***************************************************************************)
(* The place of an originaldate among the dates the store can hold, in the *)
(* order sqlite compares TEXT values (byte by byte).                       *)
text_rank(d) ==
  CASE d = "2024-01-15 10:30:00" -> 1
    [] d = "2024-01-20 14:45:00" -> 2
    [] d = "2024-01-25 09:15:00" -> 3
    [] d = "2024-02-01" -> 4

(* A listing in ascending order.                                           *)
RECURSIVE get_all_records_ascending(_)
get_all_records_ascending(st) ==
  IF st = {} THEN {<<>>}
  ELSE UNION { {<<r>> \o rest : rest \in get_all_records_ascending(st \ {r})}
                 : r \in {x \in st : \A y \in st :
                            text_rank(x.originaldate) <= text_rank(y.originaldate)} }

(* get_all_records: SELECT ... ORDER BY originaldate DESC.  The rows with  *)
(* the greatest date come first, in an order sqlite does not fix among     *)
(* rows of equal date: the set of the listings the query may return.       *)
RECURSIVE get_all_records(_)
get_all_records(st) ==
  IF st = {} THEN {<<>>}
  ELSE UNION { {<<r>> \o rest : rest \in get_all_records(st \ {r})}
                 : r \in {x \in st : \A y \in st :
                            text_rank(x.originaldate) >= text_rank(y.originaldate)} }

GetAllRecords ==
  /\ \A q \in Procs : pc[q] = "idle"
  /\ runs + calls < MaxCalls
  /\ calls' = calls + 1
  /\ \E result \in get_all_records(store) :
       call' = [op |-> "get_all_records", result |-> result]
  /\ UNCHANGED <<deleted_file_ids, gemini_filepath, pure_call, pure_result, json_input, pop_result, source, candidate_rows, store, nextId,
                 runs, pc, row, seedIdx, record, newStatus, document_result,
                 sqldb_results, match_result, ret, trace, outcomes>>

(* A delete that reports success whatever it found.                        *)
delete_record_result_always(st, pop_processing_id) == TRUE

(* What delete_record returns: cursor.rowcount > 0.                        *)
delete_record_result(st, pop_processing_id) ==
  update_rowcount(st, pop_processing_id) > 0

(* pop_cmd delete_local_db: delete_record with the id the operator typed.  *)
delete_local_db(processing_id) ==
  /\ \A q \in Procs : pc[q] = "idle"
  /\ runs + calls < MaxCalls
  /\ calls' = calls + 1
  /\ store' = delete_record(store, processing_id)
  /\ call' = [op |-> "delete_record", pop_processing_id |-> processing_id,
              result |-> delete_record_result(store, processing_id)]
  /\ UNCHANGED <<deleted_file_ids, gemini_filepath, pure_call, pure_result, json_input, pop_result, source, candidate_rows, nextId,
                 runs, pc, row, seedIdx, record, newStatus, document_result,
                 sqldb_results, match_result, ret, trace, outcomes>>

NextConsole ==
  \/ \E f \in FileIds, status \in Statuses : UpdateLocalDb(f, status)
  \/ AddSampleData
  \/ \E id \in 1..(nextId + 1) : delete_local_db(id)
  \/ GetAllRecords

SpecConsole == Init /\ [][NextConsole]_vars

(***************************************************************************)
(* The comparators and compute_match called on their own.  Dates are       *)
(* strings (well formed with two-digit or one-digit fields, in another     *)
(* format, not a date at all, empty), datetimes on two days and at two     *)
(* times of day, and None; texts are None and strings with and without     *)
(* surrounding whitespace, in either case; records are PopResults and      *)
(* FindPopFieldsResults built from such values.                            *)
(***************************************************************************)
DateInputs ==
  { NoneV,
    Str(<<"2024", "-", "01", "-", "02">>),
    Str(<<"2024", "-", "1", "-", "2">>),
    Str(<<"2024", "-", "02", "-", "01">>),
    Str(<<"01", "/", "02", "/", "2024">>),
    Str(<<"2024", "-", "01">>),
    Str(<<"A", "b">>),
    Str(<<>>),
    DateTime(2024, 1, 2, 0),
    DateTime(2024, 1, 2, 9),
    DateTime(2024, 2, 1, 0) }

StringInputs ==
  { NoneV,
    Str(<<>>),
    Str(<<" ">>),
    Str(<<"A", "b">>),
    Str(<<"A", "b", " ">>),
    Str(<<" ", "A", "b">>),
    Str(<<"A", " ", "b">>),
    Str(<<"a", "b">>),
    Str(<<"a", "B">>),
    Str(<<"B">>) }

DocumentResults ==
  { PopResult(TRUE, Str(<<"482144">>), named_insured, effective_date,
              Str(<<"2024", "-", "02", "-", "01">>), agent_code, prior_carrier)
      : named_insured \in {Str(<<"A", "b">>), Str(<<"a", "B">>), Str(<<"B">>), NoneV},
        effective_date \in {Str(<<"2024", "-", "01", "-", "02">>),
                            Str(<<"2024", "-", "1", "-", "2">>),
                            Str(<<"01", "/", "02", "/", "2024">>), NoneV},
        agent_code \in {IntV(104), IntV(207), NoneV},
        prior_carrier \in {NoneV, Str(<<"A">>)} }

SqldbResults ==
  { FindPopFieldsResult(policy_id, named_insured, effective_date,
                        DateTime(2024, 2, 1, 9), agent_code, prior_carrier)
      : policy_id \in {482144, 517203},
        named_insured \in {Str(<<"A", "b">>), Str(<<"A", "B">>), Str(<<"A", "b", " ">>)},
        effective_date \in {DateTime(2024, 1, 2, 0), DateTime(2024, 2, 1, 0)},
        agent_code \in {IntV(104), IntV(207), NoneV},
        prior_carrier \in {NoneV, Str(<<"A">>), Str(<<"A", " ">>)} }

(* Answers of the query executor to the comparison-fact query: one row,    *)
(* or two different rows.                                                  *)
FetchAnswers ==
  {List(<<r>>) : r \in FieldsRows}
    \cup {List(<<x[1], x[2]>>)
            : x \in {y \in (FieldsRows \cup {OtherRow}) \X (FieldsRows \cup {OtherRow})
                        : y[1] # y[2]}}

(* process_incoming_pop_transaction, lines 465-472, as a function of the   *)
(* extraction result and the executor's answer: map the rows, take         *)
(* sqldb_results[0], compare.                                              *)
compare_with_fetched(doc_result, fetched) ==
  LET results == find_popfields_sqldb_query(fetched)
      sqldb_result == first_result(results)
  IN IF IsRaise(results) THEN results
     ELSE IF IsRaise(sqldb_result) THEN sqldb_result
     ELSE compute_match(doc_result, sqldb_result)

PureCall(fn, a, b) == [fn |-> fn, a |-> a, b |-> b]

PureCalls ==
  {PureCall("compare_dates", a, b) : a \in DateInputs, b \in DateInputs}
    \cup {PureCall("compare_strings", a, b) : a \in StringInputs, b \in StringInputs}
    \cup {PureCall("compute_match", a, b) : a \in DocumentResults, b \in SqldbResults}
    \cup {PureCall("compare_with_fetched", a, b)
            : a \in DocumentResults, b \in FetchAnswers}

(* What a call gave: the value returned, or the exception raised.          *)
Returned(v) == [t |-> "return", v |-> v]

InitComparators ==
  /\ InitEngine
  /\ json_input = NoneV
  /\ pop_result = NoneV
  /\ source = NoneV
  /\ pure_call \in PureCalls
  /\ pure_result = NoneV

CallReturns(fn, v) ==
  /\ pure_call.fn = fn
  /\ IsNone(pure_result)
  /\ pure_result' = v
  /\ UNCHANGED <<deleted_file_ids, gemini_filepath, pure_call, json_input, pop_result, source, call, candidate_rows,
                 store, nextId, runs, calls, pc, row, seedIdx, record, newStatus,
                 document_result, sqldb_results, match_result, ret, trace,
                 outcomes>>

CallCompareDates ==
  /\ ~IsNone(pure_call)
  /\ CallReturns("compare_dates",
                 IF compare_dates_raises(pure_call.a, pure_call.b)
                 THEN compare_dates(pure_call.a, pure_call.b)
                 ELSE Returned(compare_dates(pure_call.a, pure_call.b)))

CallCompareStrings ==
  /\ ~IsNone(pure_call)
  /\ CallReturns("compare_strings",
                 Returned(compare_strings(pure_call.a, pure_call.b)))

CallComputeMatch ==
  /\ ~IsNone(pure_call)
  /\ LET result == compute_match(pure_call.a, pure_call.b)
     IN CallReturns("compute_match",
                    IF IsRaise(result) THEN result ELSE Returned(result))

CallCompareWithFetched ==
  /\ ~IsNone(pure_call)
  /\ LET result == compare_with_fetched(pure_call.a, pure_call.b)
     IN CallReturns("compare_with_fetched",
                    IF IsRaise(result) THEN result ELSE Returned(result))

NextComparators ==
  \/ CallCompareDates
  \/ CallCompareStrings
  \/ CallComputeMatch
  \/ CallCompareWithFetched

SpecComparators == InitComparators /\ [][NextComparators]_vars

(***************************************************************************)
(* Properties.                                                             *)
(***************************************************************************)
InTrace(p, e) == \E i \in DOMAIN trace[p] : trace[p][i] = e

StatusesOf(st, file_id) == {r.status : r \in RowsOf(st, file_id)}

C2_Idempotence ==
  [][\A f \in FileIds :
       outcomes[f] >= 1 =>
         /\ outcomes'[f] = outcomes[f]
         /\ \A p \in Procs :
              /\ (pc[p] = "admission" /\ pc'[p] # "admission" /\ row[p].file_id = f) =>
                   /\ pc'[p] = "returned"
                   /\ IsNone(ret'[p])
                   /\ trace'[p] = <<"admission">>
              /\ (pc[p] = "extract" /\ row[p].file_id = f) => pc'[p] = "extract"]_vars

C2_Witness ==
  \E p \in Procs :
    /\ pc[p] = "returned"
    /\ trace[p] = <<"admission">>
    /\ outcomes[row[p].file_id] = 1

(* C3 -- Copy failure.  After a failed copy the run makes no extraction    *)
(* call, no query and no comparison; it goes to the status write and       *)
(* returns None with the file id's record FAILED.                          *)
C3_CopyFailure ==
  \A p \in Procs :
    InTrace(p, "copy_failed") =>
      /\ \A e \in {"extract", "extract_failed", "query", "query_failed",
                   "query_empty", "query_exit", "compare"} : ~InTrace(p, e)
      /\ pc[p] \in {"upd_lookup", "upd_write", "returned"}
      /\ pc[p] = "returned" =>
           /\ IsNone(ret[p])
           /\ StatusesOf(store, row[p].file_id) = {"FAILED"}

C3_Witness ==
  \E p \in Procs :
    /\ pc[p] = "returned"
    /\ trace[p] = <<"admission", "copy_failed", "record">>
    /\ StatusesOf(store, row[p].file_id) = {"FAILED"}

(* C4 -- Extraction failure (as claimed).  After an extraction call that   *)
(* gave no JSON the run makes no query and no comparison, and ends with    *)
(* the file id's record FAILED.                                            *)
C4_ExtractionFailureStops ==
  \A p \in Procs :
    InTrace(p, "extract_failed") =>
      /\ \A e \in {"query", "query_failed", "query_empty", "query_exit", "compare"} :
           ~InTrace(p, e)
      /\ pc[p] \in Finished => StatusesOf(store, row[p].file_id) = {"FAILED"}

(* C5 -- Failure containment (as claimed).  Every admitted document ends   *)
(* its run, also a run that raised, with a record PROCESSED or FAILED.     *)
C5_FailureContainment ==
  \A p \in Procs :
    (pc[p] \in {"returned", "raised"} /\ (InTrace(p, "copy") \/ InTrace(p, "copy_failed"))) =>
      /\ RowsOf(store, row[p].file_id) # {}
      /\ StatusesOf(store, row[p].file_id) \subseteq {"PROCESSED", "FAILED"}

(* C6 -- Authoritative-source failure (as claimed).  A run whose query     *)
(* failed or returned zero rows ends with the file id's record FAILED.     *)
C6_QueryFailureMarksFailed ==
  \A p \in Procs :
    (pc[p] \in Finished /\ (InTrace(p, "query_failed") \/ InTrace(p, "query_empty"))) =>
      StatusesOf(store, row[p].file_id) = {"FAILED"}

(* C7 -- One record per key.  After any sequence of sequential runs,       *)
(* update_local_db calls and sample seedings no two records of the store   *)
(* have the same file id.                                                  *)
C7_OneRecordPerFileId ==
  \A r1 \in store : \A r2 \in store : r1.FileID = r2.FileID => r1 = r2

C7_Witness ==
  /\ calls >= 1
  /\ runs >= 1
  /\ Cardinality(store) = 4
  /\ StatusesOf(store, "SC001234") = {"PROCESSED"}
  /\ StatusesOf(store, "SC000042") = {"NOT_PROCESSED"}

(* C8 -- Admission race.  With overlapping runs one document can be        *)
(* extracted by both runs and the store can end with two records of one    *)
(* file id (the witness); the records of a file id never outnumber the     *)
(* runs started, so the second record needs a second run.                  *)
C8_AdmissionRace ==
  \A f \in FileIds : Cardinality(RowsOf(store, f)) <= runs

C8_Witness ==
  /\ Cardinality(RowsOf(store, "SC000042")) = 2
  /\ \A p \in Procs :
       /\ pc[p] = "returned"
       /\ row[p].file_id = "SC000042"
       /\ trace[p] = <<"admission", "copy", "extract", "query", "compare", "record">>

(* The extracted record and the first authoritative row are the same in    *)
(* named_insured, both dates and agent_code / in all but agent_code.       *)
SameDay(s, dt) ==
  /\ IsStr(s) /\ Len(s.s) = 5 /\ dt.t = "datetime"
  /\ NumVal(s.s[1]) = dt.y /\ NumVal(s.s[3]) = dt.m /\ NumVal(s.s[5]) = dt.d

IdenticalButCode(p) ==
  /\ pc[p] = "compare"
  /\ InTrace(p, "copy")
  /\ RowsOf(store, row[p].file_id) = {}
  /\ ~IsNone(document_result[p])
  /\ document_result[p].all_fields_present
  /\ ~IsNone(sqldb_results[p])
  /\ sqldb_results[p].items # <<>>
  /\ LET doc == document_result[p]
         sql == sqldb_results[p].items[1]
     IN /\ doc.named_insured = sql.named_insured
        /\ SameDay(doc.effective_date, sql.effective_date)
        /\ SameDay(doc.expiration_date, sql.expiration_date)

(* C9 -- End-to-end match, scenario A (as claimed).  Unseen file id, copy  *)
(* and extraction succeed with all fields, the authoritative row has the   *)
(* same name, dates and agent code: the comparison gives all_fields_match  *)
(* with no discrepancy and the run goes on to write PROCESSED.             *)
C9_ScenarioA ==
  [][\A p \in Procs :
       (/\ IdenticalButCode(p)
        /\ document_result[p].agent_code = sqldb_results[p].items[1].agent_code
        /\ pc'[p] # "compare") =>
         /\ pc'[p] = "upd_lookup"
         /\ newStatus'[p] = "PROCESSED"
         /\ match_result'[p].all_fields_match
         /\ match_result'[p].fields_that_dont_match = <<>>]_vars

(* C10 -- End-to-end single mismatch, scenario B (as claimed).  As A, but  *)
(* the agent codes differ: the comparison gives all_fields_match false and *)
(* exactly one discrepancy, on agent_code.                                 *)
C10_ScenarioB ==
  [][\A p \in Procs :
       (/\ IdenticalButCode(p)
        /\ document_result[p].agent_code # sqldb_results[p].items[1].agent_code
        /\ pc'[p] # "compare") =>
         /\ pc'[p] = "upd_lookup"
         /\ ~match_result'[p].all_fields_match
         /\ Len(match_result'[p].fields_that_dont_match) = 1
         /\ match_result'[p].fields_that_dont_match[1].field_name = "agent_code"]_vars

(* C11 -- Partial results flow through (as claimed).  When the extraction  *)
(* gave a record with all_fields_present false and the query gave a row,   *)
(* the comparison does not abort: the run goes on to write PROCESSED, and  *)
(* every extracted field that is null while the authoritative row has a    *)
(* value is among the discrepancies, with that value.                      *)
C11_PartialFlowsThrough ==
  [][\A p \in Procs :
       (/\ pc[p] = "compare" /\ pc'[p] # "compare"
        /\ ~IsNone(document_result[p])
        /\ ~document_result[p].all_fields_present
        /\ ~IsNone(sqldb_results[p])
        /\ sqldb_results[p].items # <<>>) =>
         /\ pc'[p] = "upd_lookup"
         /\ newStatus'[p] = "PROCESSED"
         /\ LET doc == document_result[p]
                sql == sqldb_results[p].items[1]
                diffs == match_result'[p].fields_that_dont_match
            IN \A k \in {"named_insured", "effective_date", "expiration_date",
                          "agent_code", "prior_carrier"} :
                 (IsNone(doc[k]) /\ ~IsNone(sql[k])) =>
                   \E i \in DOMAIN diffs :
                     /\ diffs[i].field_name = k
                     /\ IsNone(diffs[i].pop_document_value)
                     /\ diffs[i].sqldb_value = sql[k]]_vars

(* C12 -- Normalizer never fails on missing sections (as claimed).  For    *)
(* every input object extract_pop_info returns a record and does not       *)
(* raise; for an object without policy_summary the record has              *)
(* all_fields_present false and policy_id unset.                           *)
C12_NormalizerNeverFails ==
  ~IsNone(pop_result) =>
    /\ pop_result.t = "PopResult"
    /\ ~Has(json_input, "policy_summary") =>
         /\ ~pop_result.all_fields_present
         /\ IsNone(pop_result.policy_id)

(* C13 -- Completeness flag (as claimed).  For every input object without  *)
(* null values on which extract_pop_info returns, all_fields_present is    *)
(* false exactly when agent_number is missing or not a number, or          *)
(* policy_number, start_date, end_date or underwritten_by is missing, or   *)
(* the name is missing or empty once trimmed.                              *)
C13_CompletenessFlag ==
  LET agent_info == IF Has(json_input, "insurance_agent_info")
                    THEN json_input["insurance_agent_info"] ELSE EmptyDict
      policy_info == IF Has(json_input, "policy_summary")
                     THEN json_input["policy_summary"] ELSE EmptyDict
      policy_period == IF Has(policy_info, "policy_period")
                       THEN policy_info["policy_period"] ELSE EmptyDict
      insured == IF Has(json_input, "named_insured")
                 THEN json_input["named_insured"] ELSE EmptyDict
      noNull ==
        /\ \A d \in {agent_info, policy_info, policy_period, insured} : ~IsNone(d)
        /\ \A k \in DOMAIN agent_info : ~IsNone(agent_info[k])
        /\ \A k \in DOMAIN policy_info : ~IsNone(policy_info[k])
        /\ \A k \in DOMAIN policy_period : ~IsNone(policy_period[k])
        /\ \A k \in DOMAIN insured : ~IsNone(insured[k])
      incomplete ==
        \/ ~Has(agent_info, "agent_number")
        \/ IsRaise(py_int(agent_info["agent_number"]))
        \/ ~Has(policy_info, "policy_number")
        \/ ~Has(policy_period, "start_date")
        \/ ~Has(policy_period, "end_date")
        \/ ~Has(policy_info, "underwritten_by")
        \/ ~Has(insured, "name")
        \/ py_strip(insured["name"]) = Str(<<>>)
  IN (~IsNone(pop_result) /\ pop_result.t = "PopResult" /\ noNull) =>
       (~pop_result.all_fields_present <=> incomplete)

(* C14 -- Completeness invariant (as claimed).  Every record returned by   *)
(* extract_pop_info with all_fields_present true has policy_id,            *)
(* named_insured, effective_date, expiration_date and agent_code non-null. *)
C14_CompleteMeansNonNull ==
  (~IsNone(pop_result) /\ pop_result.t = "PopResult"
     /\ pop_result.all_fields_present) =>
    \A k \in {"policy_id", "named_insured", "effective_date", "expiration_date",
               "agent_code"} : ~IsNone(pop_result[k])

(* C15 -- No automatic requeue.  While the record of a file id is FAILED,  *)
(* no step of a poll run changes it, every admission check of that file id *)
(* skips (returns None, store untouched) and no run is at the copy, the    *)
(* extraction, the query or the comparison of that document.               *)
C15_NoAutomaticRequeue ==
  [][\A f \in FileIds :
       StatusesOf(store, f) = {"FAILED"} =>
         /\ RowsOf(store', f) = RowsOf(store, f)
         /\ \A p \in Procs :
              /\ (pc[p] = "admission" /\ pc'[p] # "admission" /\ row[p].file_id = f) =>
                   /\ pc'[p] = "returned"
                   /\ IsNone(ret'[p])
                   /\ trace'[p] = <<"admission">>
              /\ pc'[p] \in {"copy", "extract", "query", "compare"} =>
                   row'[p].file_id # f]_vars

C15_Witness ==
  /\ runs = 3
  /\ StatusesOf(store, "SC000042") = {"FAILED"}
  /\ \E p \in Procs :
       /\ pc[p] = "returned"
       /\ row[p].file_id = "SC000042"
       /\ trace[p] = <<"admission">>

C17_FirstEligible ==
  [][\A p \in Procs :
       LET items == candidate_rows[p].items
           eligible == {i \in DOMAIN items :
                         should_process(get_record_by_file_id(store, items[i].file_id))}
       IN (pc[p] = "admission" /\ pc'[p] # "admission" /\ eligible # {}) =>
            /\ pc'[p] = "copy"
            /\ row[p] = items[CHOOSE i \in eligible : \A j \in eligible : i <= j]]_vars

(* C18 -- Backlog drain (as claimed).  With the candidate list fixed and   *)
(* poll runs repeated, eventually every candidate file id has a record     *)
(* whose status is not NOT_PROCESSED.                                      *)
C18_BacklogDrain ==
  <>(\A i \in DOMAIN source.items :
       /\ RowsOf(store, source.items[i].file_id) # {}
       /\ "NOT_PROCESSED" \notin StatusesOf(store, source.items[i].file_id))

C20_WriteFailureHalts ==
  \A p \in Procs :
    InTrace(p, "record_failed") =>
      /\ pc[p] = "returned"
      /\ IsNone(ret[p])

(* C21 -- Outcome persisted with summary (as claimed).  After a run that   *)
(* completed the comparison and made its status write, the record of the   *)
(* file id is PROCESSED and carries a match_summary, which a later read of *)
(* the record by file id returns.                                          *)
C21_OutcomePersisted ==
  \A p \in Procs :
    (pc[p] = "returned" /\ InTrace(p, "compare") /\ InTrace(p, "record")) =>
      LET rec == get_record_by_file_id(store, row[p].file_id)
      IN /\ ~IsNone(rec)
         /\ rec.status = "PROCESSED"
         /\ "match_summary" \in DOMAIN rec


(* The calendar date a value denotes: a datetime's own day; a string's day *)
(* when it reads year-month-day (2024-01-02, or 2024-1-2 without the       *)
(* leading zeros); nothing for any other string.                           *)
DenotedDate(v) ==
  IF v.t = "datetime" THEN <<v.y, v.m, v.d>>
  ELSE IF v \in {Str(<<"2024", "-", "01", "-", "02">>), Str(<<"2024", "-", "1", "-", "2">>)}
       THEN <<2024, 1, 2>>
  ELSE IF v = Str(<<"2024", "-", "02", "-", "01">>) THEN <<2024, 2, 1>>
  ELSE <<>>

(* C22 -- Date comparator.  Called with a datetime or a string on each     *)
(* side, compare_dates returns (it never raises), and it returns true      *)
(* exactly when both sides denote the same calendar date, whatever the     *)
(* time of day; a string that is not a year-month-day date on either side  *)
(* gives false.                                                            *)
C22_DateComparator ==
  (/\ ~IsNone(pure_call)
   /\ pure_call.fn = "compare_dates"
   /\ ~IsNone(pure_call.a) /\ ~IsNone(pure_call.b)
   /\ ~IsNone(pure_result))
    => /\ pure_result.t = "return"
       /\ pure_result.v = (/\ DenotedDate(pure_call.a) # <<>>
                           /\ DenotedDate(pure_call.a) = DenotedDate(pure_call.b))

(* C22 witness: a datetime at nine o'clock and the string of the same day, *)
(* written without leading zeros, compared equal.                          *)
C22_Witness ==
  /\ pure_call = PureCall("compare_dates", DateTime(2024, 1, 2, 9),
                          Str(<<"2024", "-", "1", "-", "2">>))
  /\ pure_result = Returned(TRUE)

(* A text without its leading and trailing whitespace: what lies between   *)
(* its first and its last character that is not a blank.                   *)
Trimmed(s) ==
  LET ink == {i \in 1..Len(s) : s[i] # " "}
  IN IF ink = {} THEN <<>>
     ELSE SubSeq(s, CHOOSE i \in ink : \A j \in ink : i <= j,
                    CHOOSE i \in ink : \A j \in ink : j <= i)

(* C23 -- Text comparator.  compare_strings(None, None) is true; with      *)
(* exactly one side None it is false; for two strings it is true exactly   *)
(* when they are equal, case included, after trimming leading and trailing *)
(* whitespace; and swapping the arguments gives the same answer.           *)
C23_TextComparator ==
  (/\ ~IsNone(pure_call)
   /\ pure_call.fn = "compare_strings"
   /\ ~IsNone(pure_result))
    => LET a == pure_call.a
           b == pure_call.b
       IN /\ pure_result.t = "return"
          /\ pure_result.v =
               IF IsNone(a) /\ IsNone(b) THEN TRUE
               ELSE IF IsNone(a) \/ IsNone(b) THEN FALSE
               ELSE Trimmed(a.s) = Trimmed(b.s)
          /\ pure_result.v = compare_strings(b, a)

(* C23 witness: a text with a trailing blank compared equal to the same    *)
(* text with a leading blank.                                              *)
C23_Witness ==
  /\ pure_call = PureCall("compare_strings", Str(<<"A", "b", " ">>),
                          Str(<<" ", "A", "b">>))
  /\ pure_result = Returned(TRUE)

(* The field names a returned MatchResult lists as discrepancies.          *)
DiscrepancyNames(m) ==
  {m.fields_that_dont_match[i].field_name : i \in 1..Len(m.fields_that_dont_match)}

(* Two texts equal letter for letter, the case of a letter aside.          *)
SameIgnoringCase(s1, s2) ==
  /\ Len(s1) = Len(s2)
  /\ \A i \in 1..Len(s1) :
       \/ s1[i] = s2[i]
       \/ {s1[i], s2[i]} \in {{"A", "a"}, {"B", "b"}}

(* C24 -- Named-insured comparison.  When compute_match returns, it lists  *)
(* no named_insured discrepancy exactly when the extracted and the         *)
(* authoritative name are equal ignoring letter case; whitespace counts,   *)
(* so an authoritative name with a trailing blank differs from its trimmed *)
(* extracted counterpart.                                                  *)
C24_NamedInsuredComparison ==
  (/\ ~IsNone(pure_call)
   /\ pure_call.fn = "compute_match"
   /\ ~IsNone(pure_result)
   /\ pure_result.t = "return")
    => ("named_insured" \notin DiscrepancyNames(pure_result.v)
          <=> SameIgnoringCase(pure_call.a.named_insured.s,
                               pure_call.b.named_insured.s))

(* C24 witness: names that differ only in letter case are not listed, in a *)
(* call that returned.                                                     *)
C24_Witness ==
  /\ ~IsNone(pure_call)
  /\ pure_call.fn = "compute_match"
  /\ pure_call.a.named_insured = Str(<<"a", "B">>)
  /\ pure_call.b.named_insured = Str(<<"A", "b">>)
  /\ ~IsNone(pure_result)
  /\ pure_result.t = "return"
  /\ "named_insured" \notin DiscrepancyNames(pure_result.v)

(* The five tracked fields, in the order the outcome lists them.           *)
TrackedFields ==
  <<"named_insured", "effective_date", "expiration_date", "agent_code",
    "prior_carrier">>

(* Whether a tracked field of an extracted record d and an authoritative   *)
(* record a mismatch: names beyond letter case, dates by calendar day,     *)
(* agent codes by value, carriers beyond surrounding whitespace.           *)
Mismatch(f, d, a) ==
  CASE f = "named_insured" -> ~SameIgnoringCase(d[f].s, a[f].s)
    [] f \in {"effective_date", "expiration_date"} ->
         ~(DenotedDate(d[f]) # <<>> /\ DenotedDate(d[f]) = DenotedDate(a[f]))
    [] f = "agent_code" -> d[f] # a[f]
    [] f = "prior_carrier" ->
         IF IsNone(d[f]) /\ IsNone(a[f]) THEN FALSE
         ELSE IF IsNone(d[f]) \/ IsNone(a[f]) THEN TRUE
         ELSE Trimmed(d[f].s) # Trimmed(a[f].s)

(* The tracked fields that mismatch, in order, each with both values.      *)
ExpectedDiscrepancies(d, a) ==
  LET F[i \in 0..Len(TrackedFields)] ==
        IF i = 0 THEN <<>>
        ELSE LET f == TrackedFields[i]
             IN IF Mismatch(f, d, a)
                THEN Append(F[i - 1], [field_name |-> f,
                                       pop_document_value |-> d[f],
                                       sqldb_value |-> a[f]])
                ELSE F[i - 1]
  IN F[Len(TrackedFields)]

(* C25 -- Outcome consistency.  When compute_match returns,                *)
(* all_fields_match is true exactly when the discrepancy list is empty;    *)
(* the list holds one entry per mismatching tracked field, with the        *)
(* extracted and the authoritative value, in the order named_insured,      *)
(* effective_date, expiration_date, agent_code, prior_carrier; and the     *)
(* outcome's policy_id is the authoritative record's.                      *)
C25_OutcomeConsistency ==
  (/\ ~IsNone(pure_call)
   /\ pure_call.fn = "compute_match"
   /\ ~IsNone(pure_result)
   /\ pure_result.t = "return")
    => LET m == pure_result.v
       IN /\ m.all_fields_match = (m.fields_that_dont_match = <<>>)
          /\ m.fields_that_dont_match =
               ExpectedDiscrepancies(pure_call.a, pure_call.b)
          /\ m.policy_id = pure_call.b.policy_id

(* C25 witness: a returned outcome that lists two discrepancies, the       *)
(* effective date before the agent code, for the second policy id.         *)
C25_Witness ==
  /\ ~IsNone(pure_call)
  /\ pure_call.fn = "compute_match"
  /\ ~IsNone(pure_result)
  /\ pure_result.t = "return"
  /\ ~pure_result.v.all_fields_match
  /\ Len(pure_result.v.fields_that_dont_match) = 2
  /\ pure_result.v.fields_that_dont_match[1].field_name = "effective_date"
  /\ pure_result.v.fields_that_dont_match[2].field_name = "agent_code"
  /\ pure_result.v.policy_id = 517203

StageOf(e) ==
  CASE e = "admission" -> 1
    [] e \in {"copy", "copy_failed"} -> 2
    [] e \in {"extract", "extract_failed"} -> 3
    [] e \in {"query", "query_failed", "query_empty", "query_exit"} -> 4
    [] e = "compare" -> 5
    [] e \in {"record", "record_failed"} -> 6

(* C27 -- Stage ordering (as claimed).  Within a run the stages of a       *)
(* document occur only in the order admission, copy, extraction,           *)
(* authoritative fetch, comparison, record; PROCESSED is written only in a *)
(* run whose copy succeeded, whose extraction returned a result and whose  *)
(* comparison was computed; and process_incoming_pop_transaction returns a *)
(* match outcome exactly when the run wrote PROCESSED for the file id.     *)
C27_StageOrdering ==
  [][\A p \in Procs :
       /\ \A i, j \in DOMAIN trace'[p] :
            i < j => StageOf(trace'[p][i]) < StageOf(trace'[p][j])
       /\ (pc[p] = "upd_write" /\ pc'[p] = "returned"
             /\ newStatus[p] = STATUS_PROCESSED)
            => /\ InTrace(p, "copy")
               /\ InTrace(p, "extract")
               /\ InTrace(p, "compare")
       /\ (pc[p] # "returned" /\ pc'[p] = "returned")
            => LET rec == get_record_by_file_id(store', row[p].file_id)
                   wrote == /\ pc[p] = "upd_write"
                            /\ newStatus[p] = STATUS_PROCESSED
                            /\ ~IsNone(rec)
                            /\ rec.status = STATUS_PROCESSED
               IN (~IsNone(ret'[p]) /\ ret'[p].t = "MatchResult") <=> wrote]_vars

(* C28 -- Deferred record creation (as claimed).  A step of the engine     *)
(* that adds a record to the tracking store, or changes the status of one, *)
(* is the status write at the end of a document's pipeline, and the status *)
(* it writes is FAILED or PROCESSED, never IN_PROGRESS or NOT_PROCESSED;   *)
(* so a file id without a record has none until that write.                *)
C28_DeferredRecordCreation ==
  [][\A r \in store' :
       r \notin store
         => /\ r.status \in {STATUS_FAILED, STATUS_PROCESSED}
            /\ \E p \in Procs : /\ pc[p] = "upd_write"
                                /\ pc'[p] = "returned"
                                /\ r.FileID = row[p].file_id]_vars

(* C29 -- Status is the only mutation.  Every record of the tracking store *)
(* is still there after any step of the engine and after any call of       *)
(* update_local_db, with the processing id, file id, original date and     *)
(* filepath it was created with, whatever date and path the call was       *)
(* given: at most its status has changed.  (The operator's delete is not   *)
(* among these steps.)                                                     *)
C29_StatusOnlyMutation ==
  [][\A r \in store :
       \E r2 \in store' : r2 = [r EXCEPT !.status = r2.status]]_vars

(* C29 witness: update_local_db was called for the sample record SC001234  *)
(* with the poll's path and date; the record has the new status and still  *)
(* its own path and date.                                                  *)
C29_Witness ==
  /\ ~IsNone(call)
  /\ call.file_id = "SC001234"
  /\ call.status = STATUS_FAILED
  /\ LET rec == get_record_by_file_id(store, "SC001234")
     IN /\ ~IsNone(rec)
        /\ rec.status = STATUS_FAILED
        /\ rec.originaldate = "2024-01-15 10:30:00"
        /\ rec.originaldate # CandidateRow("SC001234").date_created
        /\ rec.filepath = "/claims/auto/SC001234_proof_prior.pdf"

(* C30 -- Extraction reads the local copy (as claimed).  When a run has    *)
(* called the document-understanding collaborator, its copy had succeeded  *)
(* and the path it handed over is the local working copy's: the local      *)
(* directory with the source's file name, not the remote path the poll     *)
(* gave.                                                                   *)
C30_ExtractionReadsLocalCopy ==
  \A p \in Procs :
    gemini_filepath[p] # <<>> =>
      /\ InTrace(p, "copy")
      /\ gemini_filepath[p] = copy_file_into_localdir(row[p].filepath, local_subdir)
      /\ gemini_filepath[p] # row[p].filepath

(* A row of the comparison-fact query as the authoritative record it       *)
(* stands for: policy id, name, dates and agent code in columns 1 to 5,    *)
(* prior carrier in column 10.                                             *)
AuthoritativeOf(r) ==
  [policy_id |-> r[1], named_insured |-> r[2], effective_date |-> r[3],
   expiration_date |-> r[4], agent_code |-> r[5], prior_carrier |-> r[10]]

(* C31 -- First row only.  When the comparison-fact query returned one or  *)
(* more rows and the comparison returns, the outcome is the comparison of  *)
(* the extracted record with the first row: its policy id and its          *)
(* discrepancies are those of the first row, whatever a later row holds.   *)
C31_FirstRowOnly ==
  (/\ ~IsNone(pure_call)
   /\ pure_call.fn = "compare_with_fetched"
   /\ ~IsNone(pure_result)
   /\ pure_result.t = "return")
    => LET first == AuthoritativeOf(pure_call.b.items[1])
           m == pure_result.v
       IN /\ m.policy_id = first.policy_id
          /\ m.fields_that_dont_match = ExpectedDiscrepancies(pure_call.a, first)
          /\ m.all_fields_match = (ExpectedDiscrepancies(pure_call.a, first) = <<>>)

(* C31 witness: two rows were returned, the second with another name and   *)
(* agent code, and the outcome reports a full match with the first.        *)
C31_Witness ==
  /\ ~IsNone(pure_call)
  /\ pure_call.fn = "compare_with_fetched"
  /\ Len(pure_call.b.items) = 2
  /\ pure_call.b.items[2] = OtherRow
  /\ ~IsNone(pure_result)
  /\ pure_result.t = "return"
  /\ pure_result.v.all_fields_match

(* C32 -- prior_carrier gap.  The record the normalizer hands to the       *)
(* comparison has prior_carrier None, also when the document names an      *)
(* underwriter; so the comparison lists a prior_carrier discrepancy        *)
(* exactly when the authoritative prior carrier is not None.               *)
C32_PriorCarrierGap ==
  [][\A p \in Procs :
       /\ (~IsNone(document_result'[p]))
            => IsNone(document_result'[p].prior_carrier)
       /\ (pc[p] = "compare" /\ pc'[p] = "upd_lookup")
            => ("prior_carrier" \in DiscrepancyNames(match_result'[p])
                  <=> ~IsNone(sqldb_results[p].items[1].prior_carrier))]_vars

(* C32 witness: a document naming underwriter A, compared with an          *)
(* authoritative record whose prior carrier is A and which agrees in every *)
(* other field: the prior carrier is the one discrepancy.                  *)
C32_Witness ==
  /\ pc["run_a"] = "upd_lookup"
  /\ ~IsNone(match_result["run_a"])
  /\ match_result["run_a"].fields_that_dont_match
       = <<MatchField("prior_carrier", NoneV, Str(<<"A">>))>>

(* Two agent codes equal as values: both absent, or both the same number.  *)
SameCode(c1, c2) ==
  \/ IsNone(c1) /\ IsNone(c2)
  \/ ~IsNone(c1) /\ ~IsNone(c2) /\ c1.v = c2.v

(* C33 -- Agent-code comparison.  When compute_match returns, it lists an  *)
(* agent_code discrepancy exactly when the extracted and the authoritative *)
(* code differ under direct equality: none for two absent codes, one for   *)
(* an absent extracted code against a concrete authoritative code.         *)
C33_AgentCodeComparison ==
  (/\ ~IsNone(pure_call)
   /\ pure_call.fn = "compute_match"
   /\ ~IsNone(pure_result)
   /\ pure_result.t = "return")
    => ("agent_code" \in DiscrepancyNames(pure_result.v)
          <=> ~SameCode(pure_call.a.agent_code, pure_call.b.agent_code))

(* C33 witness: both codes absent, and the returned outcome lists no       *)
(* agent_code discrepancy.                                                 *)
C33_Witness ==
  /\ ~IsNone(pure_call)
  /\ pure_call.fn = "compute_match"
  /\ IsNone(pure_call.a.agent_code)
  /\ IsNone(pure_call.b.agent_code)
  /\ ~IsNone(pure_result)
  /\ pure_result.t = "return"
  /\ "agent_code" \notin DiscrepancyNames(pure_result.v)

(* C34 -- Listing order.  Whatever inserts, status updates and deletes     *)
(* came before, a listing holds every record of the store exactly once,    *)
(* and no record of it comes before one with a later original date.        *)
C34_ListingOrder ==
  (~IsNone(call) /\ "op" \in DOMAIN call /\ call.op = "get_all_records")
    => LET l == call.result
       IN /\ Len(l) = Cardinality(store)
          /\ \A r \in store : \E i \in 1..Len(l) : l[i] = r
          /\ \A i, j \in 1..Len(l) :
               i < j => text_rank(l[i].originaldate) >= text_rank(l[j].originaldate)

(* C34 witness: the three sample records and a record inserted with a      *)
(* later date, listed with that record first and SC001234, the earliest,   *)
(* last.                                                                   *)
C34_Witness ==
  /\ ~IsNone(call)
  /\ "op" \in DOMAIN call
  /\ call.op = "get_all_records"
  /\ Len(call.result) = 4
  /\ call.result[1].FileID = "SC000042"
  /\ call.result[2].FileID = "SC009876"
  /\ call.result[3].FileID = "SC005678"
  /\ call.result[4].FileID = "SC001234"

(* C35 -- Operator delete.  delete_record(processing_id) returns true and  *)
(* removes the record with that processing id, and no other, when there is *)
(* one; it returns false and leaves the store as it was when there is      *)
(* none.                                                                   *)
C35_OperatorDelete ==
  [][(~IsNone(call') /\ "op" \in DOMAIN call' /\ call'.op = "delete_record"
        /\ calls' = calls + 1)
       => LET id == call'.pop_processing_id
              found == {r \in store : r.PopProcessingId = id}
          IN IF found # {}
             THEN /\ call'.result = TRUE
                  /\ Cardinality(found) = 1
                  /\ store' = store \ found
             ELSE /\ call'.result = FALSE
                  /\ store' = store]_vars

(* C35 witness: the record with processing id 2 was deleted from the three *)
(* sample records; the call returned true and the other two are there.     *)
C35_Witness ==
  /\ ~IsNone(call)
  /\ "op" \in DOMAIN call
  /\ call.op = "delete_record"
  /\ call.pop_processing_id = 2
  /\ call.result = TRUE
  /\ {r.PopProcessingId : r \in store} = {1, 3}

(* C36 -- Absorbing statuses under the engine (as claimed).  In runs made  *)
(* one after the other without operator action, the status of a file id    *)
(* that is PROCESSED, FAILED or IN_PROGRESS stays as it is; and whenever    *)
(* the status of a file id changes, it was absent or NOT_PROCESSED before  *)
(* and is FAILED or PROCESSED after.                                       *)
C36_AbsorbingStatuses ==
  [][\A f \in FileIds :
       LET before == StatusesOf(store, f)
           after == StatusesOf(store', f)
       IN /\ (before \cap {STATUS_PROCESSED, STATUS_FAILED, STATUS_IN_PROGRESS} # {})
               => after = before
          /\ (after # before)
               => /\ before \subseteq {STATUS_NOT_PROCESSED}
                  /\ after \subseteq {STATUS_FAILED, STATUS_PROCESSED}
                  /\ after # {}]_vars

(* C37 -- Re-admission after operator delete (as claimed).  After the      *)
(* operator deleted the PROCESSED or FAILED record of a file id, the next  *)
(* run that sees the file id admits the document, calls the extraction for *)
(* it again, and ends with exactly one record of the file id in the store. *)
C37_ReadmissionAfterDelete ==
  [][\A p \in Procs :
       /\ (/\ pc[p] = "admission"
           /\ pc'[p] # "admission"
           /\ row[p].file_id \in deleted_file_ids)
            => pc'[p] = "copy"
       /\ (/\ pc[p] \notin Finished
           /\ pc'[p] \in Finished
           /\ ~IsNone(row'[p])
           /\ row'[p].file_id \in deleted_file_ids')
            => /\ \E i \in DOMAIN trace'[p] :
                    trace'[p][i] \in {"extract", "extract_failed"}
               /\ Cardinality(RowsOf(store', row'[p].file_id)) = 1]_vars

(* The file ids of the sample records.                                     *)
SampleFileIds == {sample_records[i].file_id : i \in DOMAIN sample_records}

(* C38 -- Sample seeding is idempotent.  A call of add_sample_data, on its *)
(* own or as the seeding of a run, in whatever state the store is, keeps   *)
(* every record as it is, status included; what it adds are records of     *)
(* sample file ids that had none, one each; and a further call right after *)
(* adds nothing.                                                           *)
C38_SeedingIdempotent ==
  [][(\/ calls' = calls + 1 /\ IsNone(call')
      \/ \E p \in Procs : pc[p] \in {"seed_lookup", "seed_insert"} /\ pc'[p] # pc[p]
      \/ \E p \in Procs : pc[p] = "seed_insert")
       => /\ store \subseteq store'
          /\ \A r \in store' \ store :
               /\ r.FileID \in SampleFileIds
               /\ RowsOf(store, r.FileID) = {}
               /\ Cardinality(RowsOf(store', r.FileID)) = 1
          /\ (calls' = calls + 1)
               => /\ add_sample_data(store', nextId').store = store'
                  /\ \A f \in SampleFileIds : RowsOf(store', f) # {}]_vars

(* C38 witness: add_sample_data was called on a store that held SC001234   *)
(* as FAILED; that record is as it was and the two other sample records    *)
(* were added.                                                             *)
C38_Witness ==
  /\ IsNone(call)
  /\ runs = 0
  /\ calls = 2
  /\ Cardinality(store) = 3
  /\ \E r \in store : /\ r.FileID = "SC001234"
                      /\ r.status = STATUS_FAILED
                      /\ r.PopProcessingId = 1
  /\ \A f \in SampleFileIds : Cardinality(RowsOf(store, f)) = 1

====
